---- MODULE Spec2Model ----
(***************************************************************************)
(* ImageGenie AI: the edit history, the credit-metered guarded operations, *)
(* the gallery and the session bridge of App.tsx (src/unnamed/part_001),   *)
(* with the ledger client of src/services/userService.ts and the response  *)
(* classification of src/services/geminiService.ts.                        *)
(*                                                                         *)
(* React state is one variable per useState cell.  An async handler is an  *)
(* entry of `ops`: it keeps the values its closure captured when it was    *)
(* called and a position (pc) naming the remote call it is suspended on.   *)
(* Everything a handler does between two awaits is one atomic step.        *)
(***************************************************************************)
EXTENDS Integers, Sequences, FiniteSets, TLC

(* ------------------------------ bounds -------------------------------- *)
\* guarded edits started in one run of the editor (SpecEditor)
MaxOps == 2
\* guarded operations (edit, generate, upscale) started in one run of the
\* whole application (Spec)
MaxSessionOps == 1
\* File objects created in one run (uploads, edit results, crops)
MaxFiles == 3
\* verified-identity notifications delivered in one run
MaxLogins == 1
\* gallery documents of the identity
MaxGallery == 2

\* characters of a string handed to a conversion
MaxUrlLen == 5
\* characters of the body that follows a well-formed header
MaxBodyLen == 4

(* ------------------------- program constants -------------------------- *)
EditCost == 2
GenerateCost == 2
UpscaleCost == 1
SignUpCredits == 25

NULL == "null"
NoFile == 0

\* the error cell: null, or a message (its kind and the numbers it names)
NoError == [kind |-> "none", required |-> 0, available |-> 0]
Err(kind) == [kind |-> kind, required |-> 0, available |-> 0]
\* the message with its two numbers exchanged
InsufficientCredits_swapped(amount, credits) ==
    [kind |-> "Insufficient", required |-> credits, available |-> amount]

\* `You need ${amount} credits for this action, but you only have ${credits}.`
InsufficientCredits(amount, credits) ==
    [kind |-> "Insufficient", required |-> amount, available |-> credits]

VARIABLES
    \* ---- Auth Service / Document Store (remote) ----
    identity,             \* what the Auth Service last notified: init | none | unverified | verified
    dbExists,             \* users/{uid} exists
    dbCredits,            \* users/{uid}.credits
    dbTx,                 \* users/{uid}.creditHistory (array of records)
    dbGallery,            \* users/{uid}/gallery, newest first
    now,                  \* the client clock, in the granularity of Date#toISOString
    \* ---- App state (useState cells) ----
    currentUser,
    authLoading,
    appMode,
    history,
    historyIndex,
    isLoading,
    error,
    editHotspot,
    displayHotspot,
    activeTab,
    crop,
    completedCrop,
    allGeneratedImages,
    \* ---- async handlers in flight ----
    ops,                  \* guarded operations, by start order
    nOps,
    authOps,              \* onAuthStateChanged callbacks of verified identities
    nLogins,
    nFiles,               \* File objects created so far (a File is its number)
    \* ---- history of the run ----
    last,                 \* the step taken last: [ev, op]
    \* ---- a conversion applied on its own ----
    arg,                  \* the string handed to the conversion
    ret,                  \* what the conversion returned, or that it threw
    \* ---- object URLs ----
    currentImageUrl,      \* useState cell: the URL made for this File, or none
    originalImageUrl,     \* useState cell: the URL made for this File, or none
    liveUrls,             \* per slot, the URLs created and not yet revoked
    urlFault              \* a revoke of a URL not live, or a use of one

dbVars == <<identity, dbExists, dbCredits, dbTx, dbGallery, now>>
histVars == <<history, historyIndex>>
hotVars == <<editHotspot, displayHotspot>>
cropVars == <<crop, completedCrop>>
taskVars == <<ops, nOps, authOps, nLogins>>
vars == <<identity, dbExists, dbCredits, dbTx, dbGallery, now, currentUser,
          authLoading, appMode, history, historyIndex, isLoading,
          error, editHotspot, displayHotspot, activeTab, crop, completedCrop,
          allGeneratedImages, ops, nOps, authOps, nLogins, nFiles, last,
          arg, ret, currentImageUrl, originalImageUrl, liveUrls, urlFault>>
convVars == <<arg, ret>>
urlVars == <<currentImageUrl, originalImageUrl, liveUrls, urlFault>>

(* ------------------------------ values -------------------------------- *)
NoUser == [present |-> FALSE, credits |-> 0]
User(c) == [present |-> TRUE, credits |-> c]

Tabs == {"promptEdit", "localEdit", "filters", "crop"}
EditKinds == {"local", "filter", "adjust"}

\* a reason string: `Refund: ` prefix, text, and the gallery id it embeds
Reason(text, id) == [refund |-> FALSE, text |-> text, id |-> id]
Tx(reason, amount, date) == [reason |-> reason, amount |-> amount, date |-> date]

EditReason(sub) ==
    CASE sub = "local" -> Reason("AI Local Edit", 0)
      [] sub = "filter" -> Reason("AI Filter", 0)
      [] sub = "adjust" -> Reason("AI Prompt Edit", 0)

\* a download URL of the Blob Store: https://..., with no comma in it
BlobUrl(n) == [scheme |-> "https", n |-> n]
GalleryEntry(id, url, up) == [id |-> id, url |-> url, isUpscaled |-> up]

NoEntry == GalleryEntry(0, BlobUrl(0), FALSE)

\* An async handler: what its closure captured (sub, img, capHistory, capIndex),
\* the date of the ledger write it issued last, where it is suspended (pc), and
\* what it has done so far: delta is the sum of its changes to the stored
\* balance, recAdded the number of records its writes added to creditHistory,
\* debitsAtAi the number of its debits applied when it issued its AI call.
IdleOp == [kind |-> "idle", pc |-> "idle", sub |-> "none", img |-> NoEntry,
           capHistory |-> <<>>, capIndex |-> -1, date |-> 0,
           debits |-> 0, refundTries |-> 0, refunds |-> 0,
           delta |-> 0, recAdded |-> 0,
           aiCalls |-> 0, debitsAtAi |-> -1, appended |-> NoFile,
           result |-> "none"]

Ev(e, i) == [ev |-> e, op |-> i]

\* a File as far as a conversion produces it: its type and its bytes; ok is
\* FALSE when the conversion threw
NoFileYet == [ok |-> FALSE, type |-> <<>>, bytes |-> <<>>, err |-> "none"]
Thrown(e) == [ok |-> FALSE, type |-> <<>>, bytes |-> <<>>, err |-> e]

(* ------------------------- derived React values ----------------------- *)
\* const currentImage = history[historyIndex] ?? null
currentImage ==
    IF historyIndex + 1 \in DOMAIN history THEN history[historyIndex + 1] ELSE NoFile
\* const originalImage = history[0] ?? null
originalImage == IF Len(history) > 0 THEN history[1] ELSE NoFile

canUndo == historyIndex > 0

(* ------------------------------ object URLs --------------------------- *)
\* the state after the first render: no image, so both effects took their
\* else branch
NoObjectUrls ==
    /\ currentImageUrl = NoFile
    /\ originalImageUrl = NoFile
    /\ liveUrls = [current |-> <<>>, original |-> <<>>, download |-> <<>>]
    /\ urlFault = "none"

IsLive(live, f) == \E k \in DOMAIN live : live[k] = f

\* URL.createObjectURL(file): one more live URL of the slot
createObjectURL(live, f) == Append(live, f)

\* a cleanup that revokes nothing
revokeObjectURL_leak(live, f) == live

\* URL.revokeObjectURL(url): the URL is live no more
revokeObjectURL(live, f) ==
    IF IsLive(live, f)
    THEN LET k == CHOOSE j \in DOMAIN live : live[j] = f
         IN SubSeq(live, 1, k - 1) \o SubSeq(live, k + 1, Len(live))
    ELSE live

\* a URL that is shown (<img src>, link.click()) or revoked must be live
Stale(live, f) == f # NoFile /\ ~IsLive(live, f)

\* useEffect(..., [image]) of a slot, for one commit.  When the image is not
\* the one of the previous commit, the cleanup the previous run returned
\* revokes the URL of the cell, then a URL is created for the new image and
\* stored in the cell (null is stored when there is no image)
effectLive(live, cell, old, new) ==
    IF old = new THEN live
    ELSE LET cleaned == IF cell # NoFile THEN revokeObjectURL(live, cell)
                        ELSE live
         IN IF new # NoFile THEN createObjectURL(cleaned, new) ELSE cleaned

effectCell(cell, old, new) == IF old = new THEN cell ELSE new

\* the component is mounted until its unmount, which is its last step
mounted == last.ev # "unmount"

\* the two effects of the commit that follows a handler of the mounted
\* component; the render of that commit shows the URLs the cells held
objectUrlEffects ==
    /\ mounted
    /\ currentImageUrl' =
           effectCell(currentImageUrl, currentImage, currentImage')
    /\ originalImageUrl' =
           effectCell(originalImageUrl, originalImage, originalImage')
    /\ liveUrls' =
           [current |-> effectLive(liveUrls.current, currentImageUrl,
                                   currentImage, currentImage'),
            original |-> effectLive(liveUrls.original, originalImageUrl,
                                    originalImage, originalImage'),
            download |-> liveUrls.download]
    /\ urlFault' =
           IF urlFault # "none" THEN urlFault
           ELSE IF \/ Stale(liveUrls.current, currentImageUrl)
                   \/ Stale(liveUrls.original, originalImageUrl)
                THEN "usedAfterRevoke"
                ELSE "none"
\* canRedo with the bound off by one
canRedo_offByOne == historyIndex < Len(history)

canRedo == historyIndex < Len(history) - 1

\* renderContent: what the main area shows
renderContent ==
    IF authLoading THEN "spinner"
    ELSE IF ~currentUser.present THEN "auth"
    ELSE IF error # NoError /\ appMode # "pricing" THEN "error"
    ELSE appMode

\* renderEditor shows the editor once an object URL of the current image exists
EditorShown == renderContent = "editor" /\ currentImage # NoFile
StartShown ==
    \/ renderContent = "start"
    \/ renderContent = "editor" /\ currentImage = NoFile
isAuthenticated == currentUser.present

\* edit operations that may still append a File
PendingFiles ==
    Cardinality({i \in 1..MaxOps : ops[i].kind = "edit" /\ ops[i].pc # "done"})
FileAvailable == nFiles + PendingFiles < MaxFiles

(* ------------------------------- Init --------------------------------- *)
\* A returning identity: the sign-up bonus, ten filters and one generation
\* spent, one generated image in the gallery.
\* createUserProfile: the document a sign-up sets
createUserProfile(date) ==
    [credits |-> SignUpCredits,
     creditHistory |-> <<Tx(Reason("Sign-up bonus", 0), SignUpCredits, date)>>]

PriorTx ==
    createUserProfile(-12).creditHistory
    \o [k \in 1..10 |-> Tx(Reason("AI Filter", 0), -EditCost, k - 12)]
    \o <<Tx(Reason("Image Generation", 0), -GenerateCost, -1)>>
PriorCredits == createUserProfile(-12).credits - 10 * EditCost - GenerateCost

Init ==
    /\ identity = "init"
    /\ dbExists \in BOOLEAN
    /\ dbCredits = IF dbExists THEN PriorCredits ELSE 0
    /\ dbTx = IF dbExists THEN PriorTx ELSE <<>>
    /\ dbGallery = IF dbExists THEN <<GalleryEntry(1, BlobUrl(1), FALSE)>> ELSE <<>>
    /\ now = 0
    /\ currentUser = NoUser
    /\ authLoading = TRUE
    /\ appMode = "start"
    /\ history = <<>>
    /\ historyIndex = -1
    /\ isLoading = FALSE
    /\ error = NoError
    /\ editHotspot = NULL
    /\ displayHotspot = NULL
    /\ activeTab = "promptEdit"
    /\ crop = NULL
    /\ completedCrop = NULL
    /\ allGeneratedImages = <<>>
    /\ ops = [i \in 1..MaxOps |-> IdleOp]
    /\ nOps = 0
    /\ authOps = [i \in 1..MaxLogins |-> "idle"]
    /\ nLogins = 0
    /\ nFiles = 0
    /\ last = Ev("init", 0)
    /\ arg = <<>>
    /\ ret = NoFileYet
    /\ NoObjectUrls

(* ------------------------- Edit History Engine ------------------------ *)
\* addImageToHistory pushing onto the whole array, without the slice
addImageToHistory_noTruncate(h, idx, file) ==
    /\ history' = Append(h, file)
    /\ historyIndex' = Len(history') - 1
    /\ crop' = NULL
    /\ completedCrop' = NULL

\* addImageToHistory with the history and index its closure holds
addImageToHistory(h, idx, file) ==
    /\ history' = Append(SubSeq(h, 1, idx + 1), file)
    /\ historyIndex' = Len(history') - 1
    /\ crop' = NULL
    /\ completedCrop' = NULL

\* handleImageUpload pushing the file onto the history it finds
handleImageUpload_append(file) ==
    /\ error' = NoError
    /\ history' = Append(history, file)
    /\ historyIndex' = Len(history)
    /\ editHotspot' = NULL
    /\ displayHotspot' = NULL
    /\ activeTab' = "promptEdit"
    /\ crop' = NULL
    /\ completedCrop' = NULL
    /\ appMode' = "editor"

handleImageUpload(file) ==
    /\ error' = NoError
    /\ history' = <<file>>
    /\ historyIndex' = 0
    /\ editHotspot' = NULL
    /\ displayHotspot' = NULL
    /\ activeTab' = "promptEdit"
    /\ crop' = NULL
    /\ completedCrop' = NULL
    /\ appMode' = "editor"

\* handleUndo without its setEditHotspot(null), setDisplayHotspot(null)
handleUndo_keepsHotspot ==
    IF canUndo
    THEN /\ historyIndex' = historyIndex - 1
         /\ UNCHANGED <<editHotspot, displayHotspot>>
    ELSE UNCHANGED <<historyIndex, editHotspot, displayHotspot>>

handleUndo ==
    IF canUndo
    THEN /\ historyIndex' = historyIndex - 1
         /\ editHotspot' = NULL
         /\ displayHotspot' = NULL
    ELSE UNCHANGED <<historyIndex, editHotspot, displayHotspot>>

handleRedo ==
    IF canRedo
    THEN /\ historyIndex' = historyIndex + 1
         /\ editHotspot' = NULL
         /\ displayHotspot' = NULL
    ELSE UNCHANGED <<historyIndex, editHotspot, displayHotspot>>

\* handleReset without its check of history.length
handleReset_always ==
    /\ historyIndex' = 0
    /\ error' = NoError
    /\ editHotspot' = NULL
    /\ displayHotspot' = NULL

\* handleReset moving the cursor onto the last version
handleReset_toLast ==
    IF Len(history) > 0
    THEN /\ historyIndex' = Len(history) - 1
         /\ error' = NoError
         /\ editHotspot' = NULL
         /\ displayHotspot' = NULL
    ELSE UNCHANGED <<historyIndex, error, editHotspot, displayHotspot>>

handleReset ==
    IF Len(history) > 0
    THEN /\ historyIndex' = 0
         /\ error' = NoError
         /\ editHotspot' = NULL
         /\ displayHotspot' = NULL
    ELSE UNCHANGED <<historyIndex, error, editHotspot, displayHotspot>>

\* handleGoHome without its setHistoryIndex(-1)
handleGoHome_keepsCursor ==
    IF ~currentUser.present
    THEN UNCHANGED <<history, historyIndex, error, editHotspot,
                     displayHotspot, appMode>>
    ELSE /\ history' = <<>>
         /\ UNCHANGED historyIndex
         /\ error' = NoError
         /\ editHotspot' = NULL
         /\ displayHotspot' = NULL
         /\ appMode' = "start"

handleGoHome ==
    IF ~currentUser.present
    THEN UNCHANGED <<history, historyIndex, error, editHotspot,
                     displayHotspot, appMode>>
    ELSE /\ history' = <<>>
         /\ historyIndex' = -1
         /\ error' = NoError
         /\ editHotspot' = NULL
         /\ displayHotspot' = NULL
         /\ appMode' = "start"

handleImageClick ==
    IF activeTab # "localEdit"
    THEN UNCHANGED <<editHotspot, displayHotspot>>
    ELSE /\ displayHotspot' = "pt"
         /\ editHotspot' = "pt"

\* handleApplyCrop without its check of completedCrop
handleApplyCrop_noCheck ==
    /\ nFiles' = nFiles + 1
    /\ addImageToHistory(history, historyIndex, nFiles + 1)
    /\ UNCHANGED error

handleApplyCrop ==
    IF completedCrop = NULL
    THEN /\ error' = Err("NoCrop")
         /\ UNCHANGED <<history, historyIndex, crop, completedCrop, nFiles>>
    ELSE /\ nFiles' = nFiles + 1
         /\ addImageToHistory(history, historyIndex, nFiles + 1)
         /\ UNCHANGED error

(* ----------------------- user steps on the editor --------------------- *)
\* FilterPanel and CropPanel are rendered with isLoading (and the crop panel
\* with isCropping); their buttons are taken as disabled while loading, the
\* way the interaction layer is described to serialize guarded operations
FilterPanelEnabled == ~isLoading
CropPanelEnabled == ~isLoading

FileSelect ==
    /\ StartShown
    /\ FileAvailable
    /\ nFiles' = nFiles + 1
    /\ handleImageUpload(nFiles + 1)
    /\ last' = Ev("upload", 0)
    /\ UNCHANGED <<dbVars, currentUser, authLoading, isLoading,
                   allGeneratedImages, taskVars>>
    /\ UNCHANGED convVars
    /\ objectUrlEffects

ClickUndo ==
    /\ EditorShown
    /\ canUndo
    /\ handleUndo
    /\ last' = Ev("undo", 0)
    /\ UNCHANGED <<dbVars, currentUser, authLoading, appMode, history,
                   isLoading, error, activeTab, cropVars, allGeneratedImages,
                   taskVars, nFiles>>
    /\ UNCHANGED convVars
    /\ objectUrlEffects

ClickRedo ==
    /\ EditorShown
    /\ canRedo
    /\ handleRedo
    /\ last' = Ev("redo", 0)
    /\ UNCHANGED <<dbVars, currentUser, authLoading, appMode, history,
                   isLoading, error, activeTab, cropVars, allGeneratedImages,
                   taskVars, nFiles>>
    /\ UNCHANGED convVars
    /\ objectUrlEffects

ClickReset ==
    /\ EditorShown
    /\ canUndo
    /\ handleReset
    /\ last' = Ev("reset", 0)
    /\ UNCHANGED <<dbVars, currentUser, authLoading, appMode, history,
                   isLoading, activeTab, cropVars, allGeneratedImages,
                   taskVars, nFiles>>
    /\ UNCHANGED convVars
    /\ objectUrlEffects

\* the Upload New button of the editor and the logo of the header
ClickGoHome ==
    /\ isAuthenticated
    /\ handleGoHome
    /\ last' = Ev("goHome", 0)
    /\ UNCHANGED <<dbVars, currentUser, authLoading, isLoading, activeTab,
                   cropVars, allGeneratedImages, taskVars, nFiles>>
    /\ UNCHANGED convVars
    /\ objectUrlEffects

ClickTab(tab) ==
    /\ EditorShown
    /\ tab # activeTab
    /\ activeTab' = tab
    /\ last' = Ev("ui", 0)
    /\ UNCHANGED <<dbVars, currentUser, authLoading, appMode, histVars,
                   isLoading, error, hotVars, cropVars, allGeneratedImages,
                   taskVars, nFiles>>
    /\ UNCHANGED convVars
    /\ objectUrlEffects

ClickImage ==
    /\ EditorShown
    /\ activeTab # "crop"
    /\ handleImageClick
    /\ last' = Ev("ui", 0)
    /\ UNCHANGED <<dbVars, currentUser, authLoading, appMode, histVars,
                   isLoading, error, activeTab, cropVars, allGeneratedImages,
                   taskVars, nFiles>>
    /\ UNCHANGED convVars
    /\ objectUrlEffects

\* ReactCrop: onChange and onComplete of one drag
DragCrop ==
    /\ EditorShown
    /\ activeTab = "crop"
    /\ completedCrop = NULL
    /\ crop' = "rect"
    /\ completedCrop' = "rect"
    /\ last' = Ev("ui", 0)
    /\ UNCHANGED <<dbVars, currentUser, authLoading, appMode, histVars,
                   isLoading, error, hotVars, activeTab, allGeneratedImages,
                   taskVars, nFiles>>
    /\ UNCHANGED convVars
    /\ objectUrlEffects

ClickApplyCrop ==
    /\ EditorShown
    /\ activeTab = "crop"
    /\ CropPanelEnabled
    /\ completedCrop # NULL => FileAvailable
    /\ handleApplyCrop
    /\ last' = Ev(IF completedCrop = NULL THEN "cropRejected" ELSE "crop", 0)
    /\ UNCHANGED <<dbVars, currentUser, authLoading, appMode,
                   isLoading, hotVars, activeTab, allGeneratedImages, taskVars>>
    /\ UNCHANGED convVars
    /\ objectUrlEffects

\* the Dismiss button of the error panel
DismissError ==
    /\ renderContent = "error"
    /\ error' = NoError
    /\ appMode' = IF appMode # "editor" THEN "start" ELSE appMode
    /\ last' = Ev("ui", 0)
    /\ UNCHANGED <<dbVars, currentUser, authLoading, histVars,
                   isLoading, hotVars, activeTab, cropVars, allGeneratedImages,
                   taskVars, nFiles>>
    /\ UNCHANGED convVars
    /\ objectUrlEffects

\* the header's pricing and gallery buttons, the back button and the start
\* screen's generator button
Navigate(mode) ==
    /\ isAuthenticated
    /\ mode # appMode
    /\ \/ mode = "pricing"
       \/ mode = "gallery" /\ Len(allGeneratedImages) > 0
       \/ mode = "start" /\ appMode \notin {"start", "editor"}
       \/ mode = "generator" /\ StartShown
    /\ appMode' = mode
    /\ last' = Ev("ui", 0)
    /\ UNCHANGED <<dbVars, currentUser, authLoading, histVars,
                   isLoading, error, hotVars, activeTab, cropVars,
                   allGeneratedImages, taskVars, nFiles>>
    /\ UNCHANGED convVars
    /\ objectUrlEffects

(* ------------------------- Credit Ledger Client ----------------------- *)
\* FieldValue.arrayUnion: the element is added unless an equal one is present
arrayUnion(arr, e) ==
    IF \E k \in DOMAIN arr : arr[k] = e THEN arr ELSE Append(arr, e)

\* getUserProfile: the document, or null when it does not exist
getUserProfile == IF dbExists THEN User(dbCredits) ELSE NoUser

Cost(kind) ==
    CASE kind = "edit" -> EditCost
      [] kind = "generate" -> GenerateCost
      [] kind = "upscale" -> UpscaleCost

\* the reason handed to handleDeductCredits
DebitReason(o) ==
    CASE o.kind = "edit" -> EditReason(o.sub)
      [] o.kind = "generate" -> Reason("Image Generation", 0)
      [] o.kind = "upscale" -> Reason("Upscale: ", o.img.id)

\* `Refund: ${reason}` of handleGenericEdit, `Refund: Upscale ${image.id}`
RefundReason(o) ==
    CASE o.kind = "edit" -> [EditReason(o.sub) EXCEPT !.refund = TRUE]
      [] o.kind = "upscale" -> [refund |-> TRUE, text |-> "Upscale ", id |-> o.img.id]
      [] o.kind = "generate" -> [refund |-> TRUE, text |-> "Image Generation", id |-> 0]

\* updateUserCredits, the write: userRef.update({credits: increment(amount),
\* creditHistory: arrayUnion(newTransaction)}), by operation i
updateUserCredits(i, amount, reason) ==
    LET tx == Tx(reason, amount, ops[i].date)
        arr == arrayUnion(dbTx, tx)
    IN /\ dbCredits' = dbCredits + amount
       /\ dbTx' = arr
       /\ UNCHANGED <<identity, dbExists, dbGallery, now>>

\* what the write of operation i adds to the operation's own account
Booked(o, amount, reason) ==
    [o EXCEPT !.delta = @ + amount,
              !.recAdded = @ + Len(arrayUnion(dbTx, Tx(reason, amount, o.date)))
                             - Len(dbTx)]

(* --------------------------- Image AI Gateway ------------------------- *)
\* a generateContent response: promptFeedback.blockReason, the inlineData part
\* of the first candidate (none, well formed, an empty mimeType, a body that is
\* not base64), the first candidate's finishReason, and response.text
\* (undefined, white space only, or some text)
Responses ==
    [block : BOOLEAN,
     image : {"none", "good", "nomime", "badb64"},
     finish : {"none", "STOP", "OTHER"},
     text : {"none", "blank", "some"}]

\* a data URL, as far as dataURLtoFile reads it
DataUrl(mime, body) == [scheme |-> "data", mime |-> mime, body |-> body]
NoUrl == [scheme |-> "none", mime |-> "", body |-> ""]

\* handleApiResponse: the data URL it returns, or the error it throws
\* handleApiResponse with the image part looked for before the block reason
handleApiResponse_imageFirst(r) ==
    IF r.image # "none"
    THEN [ok |-> TRUE, err |-> "none", quotes |-> FALSE,
          url |-> DataUrl(IF r.image = "nomime" THEN "" ELSE "image/png",
                          IF r.image = "badb64" THEN "bad" ELSE "ok")]
    ELSE IF r.block
    THEN [ok |-> FALSE, err |-> "blocked", quotes |-> FALSE, url |-> NoUrl]
    ELSE IF r.finish \notin {"none", "STOP"}
    THEN [ok |-> FALSE, err |-> "stopped", quotes |-> FALSE, url |-> NoUrl]
    ELSE [ok |-> FALSE, err |-> "noImage", quotes |-> r.text = "some",
          url |-> NoUrl]

\* handleApiResponse: the data URL it returns, or the error it throws; quotes
\* tells whether the message carries the model's text
handleApiResponse(r) ==
    IF r.block
    THEN [ok |-> FALSE, err |-> "blocked", quotes |-> FALSE, url |-> NoUrl]
    ELSE IF r.image # "none"
    THEN [ok |-> TRUE, err |-> "none", quotes |-> FALSE,
          url |-> DataUrl(IF r.image = "nomime" THEN "" ELSE "image/png",
                          IF r.image = "badb64" THEN "bad" ELSE "ok")]
    ELSE IF r.finish \notin {"none", "STOP"}
    THEN [ok |-> FALSE, err |-> "stopped", quotes |-> FALSE, url |-> NoUrl]
    ELSE [ok |-> FALSE, err |-> "noImage", quotes |-> r.text = "some",
          url |-> NoUrl]

\* what an AI request ends in: the request rejects, or handleApiResponse
\* classifies the response
NetworkError ==
    [ok |-> FALSE, err |-> "network", quotes |-> FALSE, url |-> NoUrl]
AiOutcomes == {NetworkError} \cup {handleApiResponse(r) : r \in Responses}

\* dataURLtoFile returns a File (TRUE) or throws (FALSE)
dataURLtoFile(url) ==
    /\ url.scheme = "data"
    /\ url.mime # ""
    /\ url.body = "ok"

\* dataUrlToPart of upscaleImage: throws unless the string has a comma and a
\* MIME segment; a Blob Store download URL has neither
dataUrlToPart(url) == url.scheme = "data" /\ url.mime # ""

(* ------------------------- guarded operations ------------------------- *)
\* new Date().toISOString() of a ledger call: the clock has moved on since the
\* last call, or stands in the same millisecond.  The two differ only when a
\* call of that millisecond carried the same reason and amount.
SameInstant(reason, amount) ==
    \/ \E k \in DOMAIN dbTx : dbTx[k] = Tx(reason, amount, now)
    \/ \E j \in 1..MaxOps :
         /\ ops[j].pc \in {"debitWrite", "refundWrite"}
         /\ ops[j].date = now
         /\ reason = (IF ops[j].pc = "debitWrite" THEN DebitReason(ops[j])
                                                  ELSE RefundReason(ops[j]))
Dates(reason, amount) ==
    IF SameInstant(reason, amount) THEN {now, now + 1} ELSE {now + 1}

SetOp(i, o) == ops' = [ops EXCEPT ![i] = o]

\* a handler that goes on to its AI call without the debit write
NewOp_noDebit(kind, sub, img, d) ==
    [IdleOp EXCEPT !.kind = kind, !.pc = "debitRead", !.sub = sub, !.img = img,
                   !.capHistory = IF kind = "edit" THEN history ELSE <<>>,
                   !.capIndex = IF kind = "edit" THEN historyIndex ELSE -1,
                   !.date = d, !.result = "running"]

NewOp(kind, sub, img, d) ==
    [IdleOp EXCEPT !.kind = kind, !.pc = "debitWrite", !.sub = sub, !.img = img,
                   !.capHistory = IF kind = "edit" THEN history ELSE <<>>,
                   !.capIndex = IF kind = "edit" THEN historyIndex ELSE -1,
                   !.date = d, !.result = "running"]

\* handleDeductCredits up to its await: the session balance is checked, then
\* updateUserCredits takes the date and issues the write
handleDeductCredits(kind, sub, img) ==
    IF ~currentUser.present
    THEN /\ last' = Ev("notSignedIn", 0)
         /\ UNCHANGED <<error, appMode, ops, nOps, now>>
    ELSE IF currentUser.credits < Cost(kind)
    THEN /\ error' = InsufficientCredits(Cost(kind), currentUser.credits)
         /\ appMode' = "pricing"
         /\ last' = Ev("insufficient", 0)
         /\ UNCHANGED <<ops, nOps, now>>
    ELSE /\ nOps < MaxOps
         /\ \E d \in Dates(DebitReason(NewOp(kind, sub, img, now)), -Cost(kind)) :
              /\ now' = d
              /\ SetOp(nOps + 1, NewOp(kind, sub, img, d))
         /\ nOps' = nOps + 1
         /\ last' = Ev("start", nOps + 1)
         /\ UNCHANGED <<error, appMode>>

\* handleGenericEdit without its check of currentImage
handleGenericEdit_noImageCheck(sub) ==
    handleDeductCredits("edit", sub, NoEntry)

\* handleGenericEdit up to its first await
handleGenericEdit(sub) ==
    IF currentImage = NoFile
    THEN /\ error' = Err("NoImage")
         /\ last' = Ev("noImage", 0)
         /\ UNCHANGED <<appMode, ops, nOps, now>>
    ELSE handleDeductCredits("edit", sub, NoEntry)

\* the three edit buttons.  Generate: disabled={isLoading || !prompt.trim() ||
\* !editHotspot}, the prompt being typed before the click; Apply Edit of the
\* adjustment panel: disabled={isLoading || !activePrompt.trim() ||
\* !hasEnoughCredits}
EditButtonEnabled(sub) ==
    /\ EditorShown
    /\ CASE sub = "local" ->
              ~isLoading /\ activeTab = "localEdit" /\ editHotspot # NULL
         [] sub = "adjust" ->
              /\ ~isLoading
              /\ activeTab = "promptEdit"
              /\ currentUser.credits >= EditCost
         [] sub = "filter" -> FilterPanelEnabled /\ activeTab = "filters"

ClickEdit(sub) ==
    /\ EditButtonEnabled(sub)
    /\ FileAvailable
    /\ handleGenericEdit(sub)
    /\ UNCHANGED <<identity, dbExists, dbCredits, dbTx, dbGallery, currentUser,
                   authLoading, histVars, isLoading, hotVars, activeTab,
                   cropVars, allGeneratedImages, authOps, nLogins, nFiles>>
    /\ UNCHANGED convVars
    /\ objectUrlEffects

\* ImageGenerator.handleGenerate: disabled={... || !canGenerate}
ClickGenerateImage ==
    /\ renderContent = "generator"
    /\ currentUser.credits >= GenerateCost
    /\ Len(dbGallery) + Cardinality({i \in 1..MaxOps :
            ops[i].kind = "generate" /\ ops[i].pc # "done"}) < MaxGallery
    /\ handleDeductCredits("generate", "none", NoEntry)
    /\ UNCHANGED <<identity, dbExists, dbCredits, dbTx, dbGallery, currentUser,
                   authLoading, histVars, isLoading, hotVars, activeTab,
                   cropVars, allGeneratedImages, authOps, nLogins, nFiles>>
    /\ UNCHANGED convVars
    /\ objectUrlEffects

\* GalleryScreen.handleUpscale, then handleUpscaleImage up to its first await.
\* disabled={isUpscaling || selectedImage.isUpscaled || !canUpscale}; the
\* screen's isUpscaling is lost when the screen is left and shown again
ClickUpscale(k) ==
    /\ renderContent = "gallery"
    /\ k \in DOMAIN allGeneratedImages
    /\ ~allGeneratedImages[k].isUpscaled
    /\ currentUser.credits >= UpscaleCost
    /\ handleDeductCredits("upscale", "none", allGeneratedImages[k])
    /\ UNCHANGED <<identity, dbExists, dbCredits, dbTx, dbGallery, currentUser,
                   authLoading, histVars, isLoading, hotVars, activeTab,
                   cropVars, allGeneratedImages, authOps, nLogins, nFiles>>
    /\ UNCHANGED convVars
    /\ objectUrlEffects

\* a catch block that issues the refund again when its write rejects
Rejected_retries(o) ==
    IF o.pc = "refundWrite"
    THEN [o EXCEPT !.refundTries = @ + 1]
    ELSE [o EXCEPT !.pc = "done",
                   !.result = IF o.kind = "upscale" THEN "galleryError"
                                                    ELSE "unhandled"]

\* how a handler ends when a remote call rejects outside every try block: the
\* rejection of an edit or a generation reaches no handler; GalleryScreen's
\* handleUpscale catches that of an upscale and shows it
Rejected(o) ==
    [o EXCEPT !.pc = "done",
              !.result = IF o.kind = "upscale" THEN "galleryError" ELSE "unhandled"]

\* a catch block that shows the error and returns without the refund
CatchAndRefund_noRefund(i, o) ==
    /\ error' = Err(IF o.kind = "edit" THEN "EditFailed" ELSE "UpscaleFailed")
    /\ now' = now
    /\ SetOp(i, [o EXCEPT !.pc = "done", !.result = "failed"])

\* the catch block of handleGenericEdit / handleUpscaleImage up to its await:
\* the error is shown and the refund write is issued
CatchAndRefund(i, o) ==
    /\ error' = Err(IF o.kind = "edit" THEN "EditFailed" ELSE "UpscaleFailed")
    /\ \E d \in Dates(RefundReason(o), Cost(o.kind)) :
         /\ now' = d
         /\ SetOp(i, [o EXCEPT !.pc = "refundWrite", !.date = d,
                               !.refundTries = @ + 1])

\* the debit write is applied (or fails)
DebitWrite(i, ok) ==
    /\ ops[i].pc = "debitWrite"
    /\ ok => dbExists
    /\ IF ok
       THEN /\ updateUserCredits(i, -Cost(ops[i].kind), DebitReason(ops[i]))
            /\ SetOp(i, [Booked(ops[i], -Cost(ops[i].kind), DebitReason(ops[i]))
                           EXCEPT !.pc = "debitRead", !.debits = @ + 1])
       ELSE /\ SetOp(i, Rejected(ops[i]))
            /\ UNCHANGED dbVars
    /\ last' = Ev(IF ok THEN "debit" ELSE "rejected", i)
    /\ UNCHANGED <<currentUser, authLoading, appMode, histVars,
                   isLoading, error, hotVars, activeTab, cropVars,
                   allGeneratedImages, nOps, authOps, nLogins, nFiles>>
    /\ UNCHANGED convVars
    /\ objectUrlEffects

\* getUserProfile after the debit resolves; handleDeductCredits returns and the
\* handler runs up to its next await
DebitRead(i, ok) ==
    /\ ops[i].pc = "debitRead"
    /\ LET o == ops[i] IN
       IF ~ok
       THEN /\ SetOp(i, Rejected(o))
            /\ last' = Ev("rejected", i)
            /\ UNCHANGED <<currentUser, isLoading, error, now>>
       ELSE IF ~getUserProfile.present
       THEN /\ SetOp(i, [o EXCEPT !.pc = "done", !.result = "deductFailed"])
            /\ last' = Ev("deductFailed", i)
            /\ UNCHANGED <<currentUser, isLoading, error, now>>
       ELSE /\ currentUser' = getUserProfile
            /\ last' = Ev("deducted", i)
            /\ CASE o.kind = "edit" ->
                      /\ isLoading' = TRUE
                      /\ error' = NoError
                      /\ SetOp(i, [o EXCEPT !.pc = "ai", !.aiCalls = @ + 1,
                                            !.debitsAtAi = o.debits])
                      /\ UNCHANGED now
                 [] o.kind = "generate" ->
                      /\ SetOp(i, [o EXCEPT !.pc = "ai", !.aiCalls = @ + 1,
                                            !.debitsAtAi = o.debits])
                      /\ UNCHANGED <<isLoading, error, now>>
                 [] o.kind = "upscale" ->
                      IF dataUrlToPart(o.img.url)
                      THEN /\ SetOp(i, [o EXCEPT !.pc = "ai", !.aiCalls = @ + 1,
                                                 !.debitsAtAi = o.debits])
                           /\ UNCHANGED <<isLoading, error, now>>
                      ELSE /\ CatchAndRefund(i, o)
                           /\ UNCHANGED isLoading
    /\ UNCHANGED <<identity, dbExists, dbCredits, dbTx, dbGallery, authLoading,
                   appMode, histVars, hotVars, activeTab, cropVars,
                   allGeneratedImages, nOps, authOps, nLogins, nFiles>>
    /\ UNCHANGED convVars
    /\ objectUrlEffects

\* the AI request of the operation ends in res
AIResponse(i, res) ==
    /\ ops[i].pc = "ai"
    /\ LET o == ops[i] IN
       CASE o.kind = "edit" ->
              IF res.ok /\ dataURLtoFile(res.url)
              THEN \* addImageToHistory, finally, and handleGenerate's if (success)
                   /\ nFiles' = nFiles + 1
                   /\ addImageToHistory(o.capHistory, o.capIndex, nFiles + 1)
                   /\ isLoading' = FALSE
                   /\ IF o.sub = "local"
                      THEN editHotspot' = NULL /\ displayHotspot' = NULL
                      ELSE UNCHANGED <<editHotspot, displayHotspot>>
                   /\ SetOp(i, [o EXCEPT !.pc = "done", !.result = "success",
                                         !.appended = nFiles + 1])
                   /\ last' = Ev("editDone", i)
                   /\ UNCHANGED <<error, now, appMode, dbGallery,
                                  allGeneratedImages>>
              ELSE /\ CatchAndRefund(i, o)
                   /\ last' = Ev("editCaught", i)
                   /\ UNCHANGED <<histVars, cropVars, isLoading, hotVars, nFiles,
                                  appMode, dbGallery, allGeneratedImages>>
         [] o.kind = "generate" ->
              \* generateImage returns data:image/jpeg;base64,${imageBytes}
              IF res.ok
              THEN \* handleImageGenerated up to its await
                   IF dataURLtoFile(DataUrl("image/jpeg", res.url.body))
                   THEN /\ isLoading' = TRUE
                        /\ SetOp(i, [o EXCEPT !.pc = "upload"])
                        /\ last' = Ev("generated", i)
                        /\ UNCHANGED <<error, now, histVars, cropVars, hotVars,
                                       nFiles, appMode, dbGallery,
                                       allGeneratedImages>>
                   ELSE /\ error' = Err("SaveFailed")
                        /\ isLoading' = FALSE
                        /\ SetOp(i, [o EXCEPT !.pc = "done", !.result = "saveFailed"])
                        /\ last' = Ev("saveFailed", i)
                        /\ UNCHANGED <<now, histVars, cropVars, hotVars, nFiles,
                                       appMode, dbGallery, allGeneratedImages>>
              ELSE \* the catch of ImageGenerator.handleGenerate: its own error
                   /\ SetOp(i, [o EXCEPT !.pc = "done", !.result = "generateFailed"])
                   /\ last' = Ev("generateFailed", i)
                   /\ UNCHANGED <<error, isLoading, now, histVars, cropVars,
                                  hotVars, nFiles, appMode, dbGallery,
                                  allGeneratedImages>>
         [] o.kind = "upscale" ->
              IF res.ok /\ dataURLtoFile(res.url)
              THEN /\ SetOp(i, [o EXCEPT !.pc = "upload"])
                   /\ last' = Ev("upscaled", i)
                   /\ UNCHANGED <<error, isLoading, now, histVars, cropVars,
                                  hotVars, nFiles, appMode, dbGallery,
                                  allGeneratedImages>>
              ELSE /\ CatchAndRefund(i, o)
                   /\ last' = Ev("upscaleCaught", i)
                   /\ UNCHANGED <<histVars, cropVars, isLoading, hotVars, nFiles,
                                  appMode, dbGallery, allGeneratedImages>>
    /\ UNCHANGED <<identity, dbExists, dbCredits, dbTx, currentUser,
                   authLoading, activeTab, nOps, authOps, nLogins>>
    /\ UNCHANGED convVars
    /\ objectUrlEffects

\* uploadImage resolves with the download URL, or rejects
Upload(i, ok) ==
    /\ ops[i].pc = "upload"
    /\ LET o == ops[i] IN
       IF ok
       THEN /\ SetOp(i, [o EXCEPT !.pc = "galleryWrite"])
            /\ last' = Ev("uploaded", i)
            /\ UNCHANGED <<error, isLoading, now>>
       ELSE IF o.kind = "generate"
       THEN /\ error' = Err("SaveFailed")
            /\ isLoading' = FALSE
            /\ SetOp(i, [o EXCEPT !.pc = "done", !.result = "saveFailed"])
            /\ last' = Ev("saveFailed", i)
            /\ UNCHANGED now
       ELSE /\ CatchAndRefund(i, o)
            /\ last' = Ev("upscaleCaught", i)
            /\ UNCHANGED isLoading
    /\ UNCHANGED <<identity, dbExists, dbCredits, dbTx, dbGallery, currentUser,
                   authLoading, appMode, histVars, hotVars, activeTab,
                   cropVars, allGeneratedImages, nOps, authOps, nLogins, nFiles>>
    /\ UNCHANGED convVars
    /\ objectUrlEffects

\* addImageToGallery (generation) or updateGalleryImage (upscale) resolves, or
\* rejects
GalleryWrite(i, ok) ==
    /\ ops[i].pc = "galleryWrite"
    /\ LET o == ops[i]
           newImageWithId ==
               GalleryEntry(Len(dbGallery) + 1, BlobUrl(Len(dbGallery) + 1), FALSE)
           updatedImage == GalleryEntry(o.img.id, BlobUrl(o.img.id + MaxGallery), TRUE)
       IN
       CASE o.kind = "generate" /\ ok ->
              /\ dbGallery' = <<newImageWithId>> \o dbGallery
              /\ allGeneratedImages' = <<newImageWithId>> \o allGeneratedImages
              /\ appMode' = "gallery"
              /\ isLoading' = FALSE
              /\ SetOp(i, [o EXCEPT !.pc = "done", !.result = "success"])
              /\ last' = Ev("saved", i)
              /\ UNCHANGED <<error, now>>
         [] o.kind = "generate" /\ ~ok ->
              /\ error' = Err("SaveFailed")
              /\ isLoading' = FALSE
              /\ SetOp(i, [o EXCEPT !.pc = "done", !.result = "saveFailed"])
              /\ last' = Ev("saveFailed", i)
              /\ UNCHANGED <<now, dbGallery, allGeneratedImages, appMode>>
         [] o.kind = "upscale" /\ ok ->
              /\ dbGallery' = [k \in DOMAIN dbGallery |->
                     IF dbGallery[k].id = o.img.id THEN updatedImage ELSE dbGallery[k]]
              /\ allGeneratedImages' = [k \in DOMAIN allGeneratedImages |->
                     IF allGeneratedImages[k].id = o.img.id
                     THEN updatedImage ELSE allGeneratedImages[k]]
              /\ SetOp(i, [o EXCEPT !.pc = "done", !.result = "success"])
              /\ last' = Ev("upscaleDone", i)
              /\ UNCHANGED <<error, isLoading, now, appMode>>
         [] o.kind = "upscale" /\ ~ok ->
              /\ CatchAndRefund(i, o)
              /\ last' = Ev("upscaleCaught", i)
              /\ UNCHANGED <<isLoading, dbGallery, allGeneratedImages, appMode>>
    /\ UNCHANGED <<identity, dbExists, dbCredits, dbTx, currentUser,
                   authLoading, histVars, hotVars, activeTab, cropVars,
                   nOps, authOps, nLogins, nFiles>>
    /\ UNCHANGED convVars
    /\ objectUrlEffects

\* the refund write is applied (or fails: the catch block throws, finally runs)
RefundWrite(i, ok) ==
    /\ ops[i].pc = "refundWrite"
    /\ ok => dbExists
    /\ LET o == ops[i] IN
       IF ok
       THEN /\ updateUserCredits(i, Cost(o.kind), RefundReason(o))
            /\ SetOp(i, [Booked(o, Cost(o.kind), RefundReason(o))
                           EXCEPT !.pc = "refundRead", !.refunds = @ + 1])
            /\ last' = Ev("refund", i)
            /\ UNCHANGED isLoading
       ELSE /\ SetOp(i, Rejected(o))
            /\ isLoading' = IF o.kind = "edit" THEN FALSE ELSE isLoading
            /\ last' = Ev("rejected", i)
            /\ UNCHANGED dbVars
    /\ UNCHANGED <<currentUser, authLoading, appMode, histVars, error,
                   hotVars, activeTab, cropVars, allGeneratedImages, nOps,
                   authOps, nLogins, nFiles>>
    /\ UNCHANGED convVars
    /\ objectUrlEffects

\* getUserProfile after the refund resolves; the handler returns
RefundRead(i, ok) ==
    /\ ops[i].pc = "refundRead"
    /\ LET o == ops[i] IN
       /\ IF ok
          THEN /\ currentUser' =
                    IF getUserProfile.present THEN getUserProfile ELSE currentUser
               /\ SetOp(i, [o EXCEPT !.pc = "done", !.result = "failed"])
               /\ last' = Ev("failed", i)
          ELSE /\ SetOp(i, Rejected(o))
               /\ last' = Ev("rejected", i)
               /\ UNCHANGED currentUser
       /\ isLoading' = IF o.kind = "edit" THEN FALSE ELSE isLoading
    /\ UNCHANGED <<dbVars, authLoading, appMode, histVars, error,
                   hotVars, activeTab, cropVars, allGeneratedImages, nOps,
                   authOps, nLogins, nFiles>>
    /\ UNCHANGED convVars
    /\ objectUrlEffects

(* ------------------------- Session/Auth Bridge ------------------------ *)
\* onAuthStateChanged, user && user.emailVerified: up to the first await
AuthVerified ==
    /\ identity \in {"init", "none", "unverified"}
    /\ nLogins < MaxLogins
    /\ identity' = "verified"
    /\ nLogins' = nLogins + 1
    /\ authOps' = [authOps EXCEPT ![nLogins + 1] = "profileRead"]
    /\ last' = Ev("authVerified", 0)
    /\ UNCHANGED <<dbExists, dbCredits, dbTx, dbGallery, now, currentUser,
                   authLoading, appMode, histVars, isLoading, error,
                   hotVars, activeTab, cropVars, allGeneratedImages, ops, nOps,
                   nFiles>>
    /\ UNCHANGED convVars
    /\ objectUrlEffects

\* the callback resumes with the profile.  A read that rejects leaves the
\* callback suspended for good: the states of a read that has not resolved.
AuthProfileRead(k) ==
    /\ authOps[k] = "profileRead"
    /\ IF getUserProfile.present
       THEN /\ currentUser' = getUserProfile
            /\ authOps' = [authOps EXCEPT ![k] = "galleryRead"]
            /\ UNCHANGED authLoading
       ELSE /\ authLoading' = FALSE
            /\ authOps' = [authOps EXCEPT ![k] = "done"]
            /\ UNCHANGED currentUser
    /\ last' = Ev("authProfile", 0)
    /\ UNCHANGED <<dbVars, appMode, histVars, isLoading, error,
                   hotVars, activeTab, cropVars, allGeneratedImages, ops, nOps,
                   nLogins, nFiles>>
    /\ UNCHANGED convVars
    /\ objectUrlEffects

\* the callback resumes with the gallery
AuthGalleryRead(k) ==
    /\ authOps[k] = "galleryRead"
    /\ allGeneratedImages' = dbGallery
    /\ authLoading' = FALSE
    /\ authOps' = [authOps EXCEPT ![k] = "done"]
    /\ last' = Ev("authGallery", 0)
    /\ UNCHANGED <<dbVars, currentUser, appMode, histVars, isLoading,
                   error, hotVars, activeTab, cropVars, ops, nOps, nLogins,
                   nFiles>>
    /\ UNCHANGED convVars
    /\ objectUrlEffects

\* the else branch without its setHistory([]), setHistoryIndex(-1)
AuthAbsent_keepsHistory(id) ==
    /\ \/ id = "none" /\ identity \in {"init", "verified", "unverified"}
       \/ id = "unverified" /\ identity \in {"init", "none"} /\ nLogins = 0
    /\ identity' = id
    /\ currentUser' = NoUser
    /\ allGeneratedImages' = <<>>
    /\ appMode' = "start"
    /\ authLoading' = FALSE
    /\ last' = Ev("authAbsent", 0)
    /\ UNCHANGED <<dbExists, dbCredits, dbTx, dbGallery, now, histVars,
                   isLoading, error, hotVars, activeTab, cropVars, taskVars,
                   nFiles>>
    /\ UNCHANGED convVars
    /\ objectUrlEffects

\* onAuthStateChanged, the else branch: no identity, or an unverified one
AuthAbsent(id) ==
    /\ \/ id = "none" /\ identity \in {"init", "verified", "unverified"}
       \/ id = "unverified" /\ identity \in {"init", "none"} /\ nLogins = 0
    /\ identity' = id
    /\ currentUser' = NoUser
    /\ allGeneratedImages' = <<>>
    /\ history' = <<>>
    /\ historyIndex' = -1
    /\ appMode' = "start"
    /\ authLoading' = FALSE
    /\ last' = Ev("authAbsent", 0)
    /\ UNCHANGED <<dbExists, dbCredits, dbTx, dbGallery, now,
                   isLoading, error, hotVars, activeTab, cropVars, taskVars,
                   nFiles>>
    /\ UNCHANGED convVars
    /\ objectUrlEffects

\* the steps of the guarded operations in flight
OpStep ==
    \/ \E i \in 1..MaxOps, ok \in BOOLEAN : DebitWrite(i, ok)
    \/ \E i \in 1..MaxOps, ok \in BOOLEAN : DebitRead(i, ok)
    \/ \E i \in 1..MaxOps, res \in AiOutcomes : AIResponse(i, res)
    \/ \E i \in 1..MaxOps, ok \in BOOLEAN : Upload(i, ok)
    \/ \E i \in 1..MaxOps, ok \in BOOLEAN : GalleryWrite(i, ok)
    \/ \E i \in 1..MaxOps, ok \in BOOLEAN : RefundWrite(i, ok)
    \/ \E i \in 1..MaxOps, ok \in BOOLEAN : RefundRead(i, ok)

\* the whole application
Next ==
    \/ AuthVerified
    \/ \E k \in 1..MaxLogins : AuthProfileRead(k)
    \/ \E k \in 1..MaxLogins : AuthGalleryRead(k)
    \/ \E id \in {"none", "unverified"} : AuthAbsent(id)
    \/ \E sub \in EditKinds : ClickEdit(sub) /\ nOps' <= MaxSessionOps
    \/ ClickGenerateImage /\ nOps' <= MaxSessionOps
    \/ \E k \in 1..MaxGallery : ClickUpscale(k) /\ nOps' <= MaxSessionOps
    \/ OpStep
    \/ FileSelect
    \/ ClickUndo
    \/ ClickRedo
    \/ ClickReset
    \/ ClickGoHome
    \/ \E tab \in Tabs : ClickTab(tab)
    \/ ClickImage
    \/ DragCrop
    \/ ClickApplyCrop
    \/ DismissError
    \/ \E mode \in {"start", "generator", "pricing", "gallery"} : Navigate(mode)

Spec == Init /\ [][Next]_vars

\* the editor of a session that stays signed in: uploads, tabs, hotspots, undo
\* and redo, and guarded edits that may overlap
NextEditor ==
    \/ AuthVerified
    \/ \E k \in 1..MaxLogins : AuthProfileRead(k)
    \/ \E k \in 1..MaxLogins : AuthGalleryRead(k)
    \/ \E sub \in EditKinds : ClickEdit(sub)
    \/ \E i \in 1..MaxOps, ok \in BOOLEAN : DebitWrite(i, ok)
    \/ \E i \in 1..MaxOps, ok \in BOOLEAN : DebitRead(i, ok)
    \/ \E i \in 1..MaxOps, res \in AiOutcomes : AIResponse(i, res)
    \/ \E i \in 1..MaxOps, ok \in BOOLEAN : RefundWrite(i, ok)
    \/ \E i \in 1..MaxOps, ok \in BOOLEAN : RefundRead(i, ok)
    \/ FileSelect
    \/ ClickUndo
    \/ ClickRedo
    \/ \E tab \in Tabs : ClickTab(tab)
    \/ ClickImage
    \/ DismissError

SpecEditor == Init /\ [][NextEditor]_vars

(* ------------------ a profile document that goes away ----------------- *)
\* the Document Store is shared: users/{uid} is removed from outside the
\* session; from then on docSnap.exists is false and update() rejects
ProfileDeleted ==
    /\ dbExists
    /\ dbExists' = FALSE
    /\ last' = Ev("profileDeleted", 0)
    /\ UNCHANGED <<identity, dbCredits, dbTx, dbGallery, now, currentUser,
                   authLoading, appMode, histVars, isLoading, error, hotVars,
                   activeTab, cropVars, allGeneratedImages, taskVars, nFiles>>
    /\ UNCHANGED convVars
    /\ objectUrlEffects

\* one guarded edit at a time against a store that may lose the document
NextLedger ==
    \/ AuthVerified
    \/ \E k \in 1..MaxLogins : AuthProfileRead(k)
    \/ \E k \in 1..MaxLogins : AuthGalleryRead(k)
    \/ FileSelect
    \/ \E tab \in Tabs : ClickTab(tab)
    \/ ClickImage
    \/ \E sub \in EditKinds : ClickEdit(sub) /\ nOps' <= MaxSessionOps
    \/ \E i \in 1..MaxOps, ok \in BOOLEAN : DebitWrite(i, ok)
    \/ \E i \in 1..MaxOps, ok \in BOOLEAN : DebitRead(i, ok)
    \/ \E i \in 1..MaxOps, res \in AiOutcomes : AIResponse(i, res)
    \/ \E i \in 1..MaxOps, ok \in BOOLEAN : RefundWrite(i, ok)
    \/ \E i \in 1..MaxOps, ok \in BOOLEAN : RefundRead(i, ok)
    \/ DismissError
    \/ ProfileDeleted

SpecLedger == Init /\ [][NextLedger]_vars

(* ------------------- display, download and teardown ------------------- *)
\* the Download Image button: a URL of the current image is created, clicked
\* through a link, and revoked, all within the handler
ClickDownload ==
    /\ mounted
    /\ EditorShown
    /\ LET made == createObjectURL(liveUrls.download, currentImage)
       IN /\ liveUrls' = [liveUrls EXCEPT
                            !.download = revokeObjectURL(made, currentImage)]
          /\ urlFault' = IF urlFault = "none" /\ Stale(made, currentImage)
                         THEN "usedAfterRevoke" ELSE urlFault
    /\ last' = Ev("download", 0)
    /\ UNCHANGED <<dbVars, currentUser, authLoading, appMode, histVars,
                   isLoading, error, hotVars, activeTab, cropVars,
                   allGeneratedImages, taskVars, nFiles, currentImageUrl,
                   originalImageUrl>>
    /\ UNCHANGED convVars

\* App is unmounted: the cleanup of each effect that returned one runs
Unmount ==
    /\ mounted
    /\ liveUrls' =
           [current |-> IF currentImageUrl # NoFile
                        THEN revokeObjectURL(liveUrls.current, currentImageUrl)
                        ELSE liveUrls.current,
            original |-> IF originalImageUrl # NoFile
                         THEN revokeObjectURL(liveUrls.original,
                                              originalImageUrl)
                         ELSE liveUrls.original,
            download |-> liveUrls.download]
    /\ urlFault' =
           IF urlFault # "none" THEN urlFault
           ELSE IF \/ Stale(liveUrls.current, currentImageUrl)
                   \/ Stale(liveUrls.original, originalImageUrl)
                THEN "revokedTwice"
                ELSE "none"
    /\ last' = Ev("unmount", 0)
    /\ UNCHANGED <<dbVars, currentUser, authLoading, appMode, histVars,
                   isLoading, error, hotVars, activeTab, cropVars,
                   allGeneratedImages, taskVars, nFiles, currentImageUrl,
                   originalImageUrl>>
    /\ UNCHANGED convVars

\* sessions, uploads, history navigation, crops, one guarded edit, downloads,
\* and the unmount
NextDisplay ==
    \/ AuthVerified
    \/ \E k \in 1..MaxLogins : AuthProfileRead(k)
    \/ \E k \in 1..MaxLogins : AuthGalleryRead(k)
    \/ \E id \in {"none", "unverified"} : AuthAbsent(id)
    \/ FileSelect
    \/ ClickUndo
    \/ ClickRedo
    \/ ClickReset
    \/ ClickGoHome
    \/ \E tab \in Tabs : ClickTab(tab)
    \/ ClickImage
    \/ DragCrop
    \/ ClickApplyCrop
    \/ DismissError
    \/ \E sub \in EditKinds : ClickEdit(sub) /\ nOps' <= MaxSessionOps
    \/ \E i \in 1..MaxOps, ok \in BOOLEAN : DebitWrite(i, ok)
    \/ \E i \in 1..MaxOps, ok \in BOOLEAN : DebitRead(i, ok)
    \/ \E i \in 1..MaxOps, res \in AiOutcomes : AIResponse(i, res)
    \/ \E i \in 1..MaxOps, ok \in BOOLEAN : RefundWrite(i, ok)
    \/ \E i \in 1..MaxOps, ok \in BOOLEAN : RefundRead(i, ok)
    \/ ClickDownload
    \/ Unmount

SpecDisplay == Init /\ [][NextDisplay]_vars

(* ----------------------- the handlers, called directly ---------------- *)
\* handleUndo, handleRedo and handleGenericEdit as functions of the component:
\* called in any state, whatever the buttons bound to them show
CallUndo ==
    /\ handleUndo
    /\ last' = Ev(IF canUndo THEN "undo" ELSE "undoIgnored", 0)
    /\ UNCHANGED <<dbVars, currentUser, authLoading, appMode, history,
                   isLoading, error, activeTab, cropVars, allGeneratedImages,
                   taskVars, nFiles>>
    /\ UNCHANGED convVars
    /\ objectUrlEffects

CallRedo ==
    /\ handleRedo
    /\ last' = Ev(IF canRedo THEN "redo" ELSE "redoIgnored", 0)
    /\ UNCHANGED <<dbVars, currentUser, authLoading, appMode, history,
                   isLoading, error, activeTab, cropVars, allGeneratedImages,
                   taskVars, nFiles>>
    /\ UNCHANGED convVars
    /\ objectUrlEffects

CallReset ==
    /\ handleReset
    /\ last' = Ev(IF Len(history) > 0 THEN "reset" ELSE "resetIgnored", 0)
    /\ UNCHANGED <<dbVars, currentUser, authLoading, appMode, history,
                   isLoading, activeTab, cropVars, allGeneratedImages,
                   taskVars, nFiles>>
    /\ UNCHANGED convVars
    /\ objectUrlEffects

CallGenericEdit(sub) ==
    /\ FileAvailable
    /\ handleGenericEdit(sub)
    /\ UNCHANGED <<identity, dbExists, dbCredits, dbTx, dbGallery, currentUser,
                   authLoading, histVars, isLoading, hotVars, activeTab,
                   cropVars, allGeneratedImages, authOps, nLogins, nFiles>>
    /\ UNCHANGED convVars
    /\ objectUrlEffects

NextHandlers ==
    \/ AuthVerified
    \/ \E k \in 1..MaxLogins : AuthProfileRead(k)
    \/ \E k \in 1..MaxLogins : AuthGalleryRead(k)
    \/ FileSelect
    \/ CallUndo
    \/ CallRedo
    \/ CallReset
    \/ \E sub \in EditKinds : CallGenericEdit(sub) /\ nOps' <= MaxSessionOps
    \/ \E i \in 1..MaxOps, ok \in BOOLEAN : DebitWrite(i, ok)
    \/ \E i \in 1..MaxOps, ok \in BOOLEAN : DebitRead(i, ok)
    \/ \E i \in 1..MaxOps, res \in AiOutcomes : AIResponse(i, res)
    \/ \E i \in 1..MaxOps, ok \in BOOLEAN : RefundWrite(i, ok)
    \/ \E i \in 1..MaxOps, ok \in BOOLEAN : RefundRead(i, ok)
    \/ \E tab \in Tabs : ClickTab(tab)
    \/ ClickImage
    \/ DragCrop
    \/ ClickApplyCrop
    \/ DismissError

SpecHandlers == Init /\ [][NextHandlers]_vars

(* --------------------- dataURLtoFile, character by character ---------- *)
\* A string is a sequence of characters.  The base64 alphabet, in the order of
\* its values 0..63
B64 ==
    <<"A", "B", "C", "D", "E", "F", "G", "H", "I", "J", "K", "L", "M", "N", "O",
      "P", "Q", "R", "S", "T", "U", "V", "W", "X", "Y", "Z", "a", "b", "c", "d",
      "e", "f", "g", "h", "i", "j", "k", "l", "m", "n", "o", "p", "q", "r", "s",
      "t", "u", "v", "w", "x", "y", "z", "0", "1", "2", "3", "4", "5", "6", "7",
      "8", "9", "+", "/">>
IsB64(c) == \E k \in 1..64 : B64[k] = c
B64Index(c) == (CHOOSE k \in 1..64 : B64[k] = c) - 1

\* the first position of character c in s after position from, 0 when none
IndexOf(s, c, from) ==
    IF \E k \in (from + 1)..Len(s) : s[k] = c
    THEN CHOOSE k \in (from + 1)..Len(s) :
            s[k] = c /\ \A j \in (from + 1)..(k - 1) : s[j] # c
    ELSE 0

\* String#split(','): the segments between the commas
RECURSIVE split(_)
split(s) ==
    LET k == IndexOf(s, ",", 0)
    IN IF k = 0 THEN <<s>>
       ELSE <<SubSeq(s, 1, k - 1)>> \o split(SubSeq(s, k + 1, Len(s)))

\* String#match(/:(.*?);/): the leftmost ':' that has a ';' after it, and the
\* characters up to the first such ';'
match(s) ==
    LET i == IndexOf(s, ":", 0)
        j == IF i = 0 THEN 0 ELSE IndexOf(s, ";", i)
    IN IF j = 0 THEN [found |-> FALSE, group |-> <<>>]
       ELSE [found |-> TRUE, group |-> SubSeq(s, i + 1, j - 1)]

\* the bytes of a sequence of 6-bit values; the bits left over are dropped
RECURSIVE DecodeSextets(_)
DecodeSextets(q) ==
    IF Len(q) >= 4
    THEN LET v == q[1] * 262144 + q[2] * 4096 + q[3] * 64 + q[4]
         IN <<v \div 65536, (v \div 256) % 256, v % 256>>
            \o DecodeSextets(SubSeq(q, 5, Len(q)))
    ELSE IF Len(q) = 3
    THEN LET v == (q[1] * 4096 + q[2] * 64 + q[3]) \div 4
         IN <<v \div 256, v % 256>>
    ELSE IF Len(q) = 2
    THEN <<(q[1] * 64 + q[2]) \div 16>>
    ELSE <<>>

\* atob: one or two '=' are removed from the end of a string whose length is a
\* multiple of 4; it throws on a length of 1 modulo 4 and on a character
\* outside the alphabet
atob(s) ==
    LET n == Len(s)
        data == IF n > 0 /\ n % 4 = 0 /\ s[n] = "="
                THEN IF s[n - 1] = "=" THEN SubSeq(s, 1, n - 2)
                                       ELSE SubSeq(s, 1, n - 1)
                ELSE s
    IN IF Len(data) % 4 = 1 \/ \E k \in 1..Len(data) : ~IsB64(data[k])
       THEN [ok |-> FALSE, bytes |-> <<>>]
       ELSE [ok |-> TRUE,
             bytes |-> DecodeSextets([k \in 1..Len(data) |-> B64Index(data[k])])]

\* btoa of a byte sequence
RECURSIVE btoa(_)
btoa(b) ==
    IF Len(b) >= 3
    THEN LET v == b[1] * 65536 + b[2] * 256 + b[3]
         IN <<B64[v \div 262144 + 1], B64[((v \div 4096) % 64) + 1],
              B64[((v \div 64) % 64) + 1], B64[(v % 64) + 1]>>
            \o btoa(SubSeq(b, 4, Len(b)))
    ELSE IF Len(b) = 2
    THEN LET v == (b[1] * 256 + b[2]) * 4
         IN <<B64[v \div 4096 + 1], B64[((v \div 64) % 64) + 1], B64[(v % 64) + 1],
              "=">>
    ELSE IF Len(b) = 1
    THEN LET v == b[1] * 16
         IN <<B64[v \div 64 + 1], B64[(v % 64) + 1], "=", "=">>
    ELSE <<>>

\* new File(bits, name, {type}): the type is converted to ASCII lower case
toLowerCase(t) ==
    [k \in 1..Len(t) |->
        IF IsB64(t[k]) /\ B64Index(t[k]) < 26 THEN B64[B64Index(t[k]) + 27]
                                              ELSE t[k]]
File(bytes, type) ==
    [ok |-> TRUE, type |-> toLowerCase(type), bytes |-> bytes, err |-> "none"]

\* dataURLtoFile that goes on with an empty MIME segment
dataURLtoFileOf_anyMime(dataurl) ==
    LET arr == split(dataurl)
        mimeMatch == match(arr[1])
    IN IF Len(arr) < 2 THEN Thrown("Invalid data URL")
       ELSE IF ~mimeMatch.found THEN Thrown("Could not parse MIME type")
       ELSE IF ~atob(arr[2]).ok THEN Thrown("InvalidCharacterError")
       ELSE File(atob(arr[2]).bytes, mimeMatch.group)

\* dataURLtoFile on the characters of its argument
dataURLtoFileOf(dataurl) ==
    LET arr == split(dataurl)
        mimeMatch == match(arr[1])
    IN IF Len(arr) < 2 THEN Thrown("Invalid data URL")
       ELSE IF ~mimeMatch.found \/ mimeMatch.group = <<>>
       THEN Thrown("Could not parse MIME type")
       ELSE IF ~atob(arr[2]).ok THEN Thrown("InvalidCharacterError")
       ELSE File(atob(arr[2]).bytes, mimeMatch.group)

\* FileReader#readAsDataURL: data:<type>;base64,<btoa of the bytes>
readAsDataURL(file) ==
    <<"d", "a", "t", "a", ":">> \o file.type
    \o <<";", "b", "a", "s", "e", "6", "4", ",">> \o btoa(file.bytes)

\* the strings handed to the conversion: every string of up to MaxUrlLen of
\* these characters, and a header with a MIME segment followed by every body
\* of up to MaxBodyLen characters
UrlChars == {":", ";", ",", "p", "A", "="}
BodyChars == {"A", "p", "/", "="}
StringsOver(chars, n) == UNION {[1..k -> chars] : k \in 0..n}
Headers == {<<":", "p", ";", ",">>, <<":", "A", "p", ";", ",">>}
DataUrls ==
    StringsOver(UrlChars, MaxUrlLen)
    \cup {h \o b : h \in Headers, b \in StringsOver(BodyChars, MaxBodyLen)}

InitConversion ==
    /\ arg \in DataUrls
    /\ ret = NoFileYet
    /\ last = Ev("init", 0)
    /\ identity = "init"
    /\ dbExists = FALSE
    /\ dbCredits = 0
    /\ dbTx = <<>>
    /\ dbGallery = <<>>
    /\ now = 0
    /\ currentUser = NoUser
    /\ authLoading = TRUE
    /\ appMode = "start"
    /\ history = <<>>
    /\ historyIndex = -1
    /\ isLoading = FALSE
    /\ error = NoError
    /\ editHotspot = NULL
    /\ displayHotspot = NULL
    /\ activeTab = "promptEdit"
    /\ crop = NULL
    /\ completedCrop = NULL
    /\ allGeneratedImages = <<>>
    /\ ops = [i \in 1..MaxOps |-> IdleOp]
    /\ nOps = 0
    /\ authOps = [i \in 1..MaxLogins |-> "idle"]
    /\ nLogins = 0
    /\ nFiles = 0
    /\ NoObjectUrls

\* dataURLtoFile(arg) is called
Convert ==
    /\ last.ev = "init"
    /\ ret' = dataURLtoFileOf(arg)
    /\ last' = Ev("converted", 0)
    /\ UNCHANGED <<dbVars, currentUser, authLoading, appMode, histVars,
                   isLoading, error, hotVars, activeTab, cropVars,
                   allGeneratedImages, taskVars, nFiles, arg>>
    /\ UNCHANGED urlVars

SpecConversion == InitConversion /\ [][Convert]_vars

(* ------------------- the gateway operations on their own -------------- *)
\* the four operations that end in handleApiResponse, and what they are given:
\* the edits a File, upscaleImage a string (a data URL, or the download URL
\* a gallery entry holds)
GatewayOps == {"edit", "filter", "adjust", "upscale"}
InputUrl(x) ==
    IF x = "downloadUrl" THEN BlobUrl(1) ELSE DataUrl("image/png", "ok")

\* a call: the operation, its input, whether generateContent rejects, and the
\* response it resolves with otherwise
GatewayCalls ==
    {c \in [op : GatewayOps, input : {"file", "dataUrl", "downloadUrl"},
            rejects : BOOLEAN, response : Responses] :
        (c.op = "upscale") <=> (c.input # "file")}

NotCalled == [requests |-> 0, settled |-> FALSE, out |-> NetworkError]

InitGateway ==
    /\ arg \in GatewayCalls
    /\ ret = NotCalled
    /\ last = Ev("init", 0)
    /\ identity = "init"
    /\ dbExists = FALSE
    /\ dbCredits = 0
    /\ dbTx = <<>>
    /\ dbGallery = <<>>
    /\ now = 0
    /\ currentUser = NoUser
    /\ authLoading = TRUE
    /\ appMode = "start"
    /\ history = <<>>
    /\ historyIndex = -1
    /\ isLoading = FALSE
    /\ error = NoError
    /\ editHotspot = NULL
    /\ displayHotspot = NULL
    /\ activeTab = "promptEdit"
    /\ crop = NULL
    /\ completedCrop = NULL
    /\ allGeneratedImages = <<>>
    /\ ops = [i \in 1..MaxOps |-> IdleOp]
    /\ nOps = 0
    /\ authOps = [i \in 1..MaxLogins |-> "idle"]
    /\ nLogins = 0
    /\ nFiles = 0
    /\ NoObjectUrls

\* the operation up to its await: the input becomes a part (upscaleImage's
\* dataUrlToPart throws on a string that is no data URL), then the one
\* generateContent request is issued
GatewaySend ==
    /\ last.ev = "init"
    /\ IF arg.op = "upscale" /\ ~dataUrlToPart(InputUrl(arg.input))
       THEN /\ ret' = [requests |-> 0, settled |-> TRUE,
                       out |-> [ok |-> FALSE, err |-> "invalidDataUrl",
                                quotes |-> FALSE, url |-> NoUrl]]
            /\ last' = Ev("gatewayThrew", 0)
       ELSE /\ ret' = [requests |-> 1, settled |-> FALSE, out |-> NetworkError]
            /\ last' = Ev("requested", 0)
    /\ UNCHANGED <<dbVars, currentUser, authLoading, appMode, histVars,
                   isLoading, error, hotVars, activeTab, cropVars,
                   allGeneratedImages, taskVars, nFiles, arg>>
    /\ UNCHANGED urlVars

\* the request settles: a rejection propagates, a response goes through
\* handleApiResponse; no further request is issued
GatewayReceive ==
    /\ last.ev = "requested"
    /\ ret' = [requests |-> ret.requests, settled |-> TRUE,
               out |-> IF arg.rejects THEN NetworkError
                       ELSE handleApiResponse(arg.response)]
    /\ last' = Ev("classified", 0)
    /\ UNCHANGED <<dbVars, currentUser, authLoading, appMode, histVars,
                   isLoading, error, hotVars, activeTab, cropVars,
                   allGeneratedImages, taskVars, nFiles, arg>>
    /\ UNCHANGED urlVars

NextGateway == GatewaySend \/ GatewayReceive

SpecGateway == InitGateway /\ [][NextGateway]_vars

(* ------------------------------ properties --------------------------- *)
Hotspots == <<editHotspot, displayHotspot>>
HotspotNull == editHotspot = NULL /\ displayHotspot = NULL
EditOps == {i \in 1..MaxOps : ops[i].kind = "edit"}

\* C1: in every reachable state the history cursor lies in 0..length-1 when
\* the history is non-empty, and is -1 when the history is empty.
C1_CursorInRange ==
    IF Len(history) = 0
    THEN historyIndex = -1
    ELSE 0 <= historyIndex /\ historyIndex <= Len(history) - 1

\* a history of three versions, navigated back to its first one
C1_Witness ==
    /\ last.ev \in {"undo", "reset"}
    /\ Len(history) >= 3
    /\ historyIndex = 0

\* C2: an append (a crop result, or the result of an AI edit) on a history h
\* with cursor c yields h[0..c] followed by the new artifact, the cursor on
\* the new last entry; every entry after c is discarded.  For an AI edit h and
\* c are those its handler holds.
C2_AppendTruncates ==
    [][/\ last'.ev = "crop" =>
            /\ history' = SubSeq(history, 1, historyIndex + 1) \o <<nFiles'>>
            /\ historyIndex' = Len(history') - 1
       /\ last'.ev = "editDone" =>
            /\ history' = SubSeq(ops[last'.op].capHistory, 1,
                                  ops[last'.op].capIndex + 1) \o <<nFiles'>>
            /\ historyIndex' = Len(history') - 1]_vars

\* [A, B], undo to A, append C: [A, C] with the cursor on C
C2_Witness ==
    /\ last.ev = "crop"
    /\ history = <<1, 3>>
    /\ historyIndex = 1

\* C3: an AI edit that was started with an image and enough credits and whose
\* AI call returned an image has, on completion, lowered the stored balance by
\* its cost once, recorded exactly one transaction of -cost, and added exactly
\* one artifact to the history it was applied to, which is the current one.
C3_EditSuccess ==
    \A i \in EditOps :
        ops[i].result = "success" =>
            /\ ops[i].debits = 1
            /\ ops[i].delta = -EditCost
            /\ ops[i].recAdded = 1
            /\ ops[i].appended # NoFile
            /\ last = Ev("editDone", i) =>
                   /\ currentImage = ops[i].appended
                   /\ Len(history) = ops[i].capIndex + 2

\* C4: an AI edit that was debited, whose AI call failed and whose refund
\* write succeeded leaves the stored balance where it was, has added the debit
\* and one refund record and nothing else, has appended nothing, and has set
\* an error message when the failure was caught.
C4_EditRefunded ==
    \A i \in EditOps :
        /\ ops[i].refunds = 1 =>
              /\ ops[i].delta = 0
              /\ ops[i].recAdded = 2
              /\ ops[i].appended = NoFile
        /\ last = Ev("editCaught", i) => error = Err("EditFailed")

\* C5: a guarded operation requested with a session balance below its cost
\* starts no debit and no AI call, leaves stored balance, transactions, history
\* and cursor as they were, sets the insufficient-credits error naming the
\* cost and the balance, and shows the pricing screen.
C5_InsufficientCredits ==
    [][last'.ev = "insufficient" =>
        /\ UNCHANGED <<dbCredits, dbTx, history, historyIndex, ops, nOps,
                       currentUser>>
        /\ \E kind \in {"edit", "generate", "upscale"} :
              /\ currentUser.credits < Cost(kind)
              /\ error'.kind = "Insufficient"
              /\ error'.required = Cost(kind)
              /\ error'.available = currentUser.credits
        /\ appMode' = "pricing"
        /\ renderContent' = "pricing"]_vars

\* balance 1, cost 2: rejected, the balance stays 1
C5_Witness ==
    /\ last.ev = "insufficient"
    /\ currentUser.credits = 1
    /\ dbCredits = 1
    /\ error.required = EditCost
    /\ nOps = 1 /\ ops[1].pc = "done"

\* C6: an image generation that was debited and then failed (the generate call,
\* or storing the image) has issued a refund of its cost: the stored balance
\* is where it was.
C6_GenerateRefunded ==
    \A i \in 1..MaxOps :
        /\ ops[i].kind = "generate"
        /\ ops[i].debits = 1
        /\ ops[i].result \in {"generateFailed", "saveFailed"}
        => ops[i].refunds = 1 /\ ops[i].delta = 0

C8_DebitBeforeAppend ==
    \A i \in EditOps :
        /\ ops[i].aiCalls > 0 => ops[i].aiCalls = 1 /\ ops[i].debitsAtAi = 1
        /\ ops[i].appended # NoFile =>
              /\ ops[i].debits = 1
              /\ ops[i].delta = -EditCost
              /\ ops[i].refundTries = 0
        /\ ops[i].refundTries > 0 => ops[i].appended = NoFile

\* one edit has appended its artifact, another has been refunded
C8_Witness ==
    \E i, j \in EditOps :
        /\ ops[i].appended # NoFile
        /\ ops[j].refunds = 1

\* C9: no failure of a remote call of a guarded edit or a gallery upscale
\* leaves its handler as an unhandled rejection.
C9_AllCaught ==
    \A i \in 1..MaxOps :
        ops[i].kind \in {"edit", "upscale"} => ops[i].result # "unhandled"

\* C10: once a notification of an absent or unverified identity is processed,
\* the history is empty with cursor -1, currentUser is null, the gallery in
\* memory is empty and the authentication screen is shown.
C10_AbsentClearsSession ==
    last.ev = "authAbsent" =>
        /\ history = <<>>
        /\ historyIndex = -1
        /\ currentUser = NoUser
        /\ allGeneratedImages = <<>>
        /\ appMode = "start"
        /\ renderContent = "auth"

\* a sign-out after a session that had loaded its gallery and an image
C10_Witness ==
    /\ last.ev = "authAbsent"
    /\ identity = "none"
    /\ nLogins = 1
    /\ authOps[1] = "done"
    /\ nFiles > 0

\* the sum of the amounts of a creditHistory array
RECURSIVE SumAmounts(_)
SumAmounts(arr) ==
    IF arr = <<>> THEN 0 ELSE arr[1].amount + SumAmounts(Tail(arr))

\* C11: in every reachable state the stored balance of an existing profile
\* equals the sum of the amounts of its stored transactions: every ledger
\* write changes the balance by its amount and adds one record.
C11_BalanceIsSum ==
    dbExists => dbCredits = SumAmounts(dbTx)

UpscaleOps == {i \in 1..MaxOps : ops[i].kind = "upscale"}

\* the entry with the id of e in a gallery array, as a set (empty when absent)
EntryOf(arr, e) == {arr[k] : k \in {k \in DOMAIN arr : arr[k].id = e.id}}

\* C12: an upscale of a gallery entry whose reference is a Blob Store URL,
\* requested with a balance of at least 1, hands the entry to the AI service
\* once its debit is applied (it fails only after that call was issued); when
\* the AI service returns an image and the stores accept it, the balance is
\* lowered by exactly 1, the stored entry and the in-memory entry of that id
\* hold a new reference and upscaled = true.
C12_UpscaleSuccess ==
    \A i \in UpscaleOps :
        /\ ops[i].img.url.scheme = "https" /\ ops[i].refundTries > 0
              => ops[i].aiCalls = 1
        /\ ops[i].result = "success" =>
              /\ ops[i].delta = -UpscaleCost
              /\ \A e \in EntryOf(dbGallery, ops[i].img) \cup
                           EntryOf(allGeneratedImages, ops[i].img) :
                     e.isUpscaled /\ e.url # ops[i].img.url

C15_UploadReplaces ==
    [][last'.ev = "upload" =>
        /\ history' = <<nFiles'>>
        /\ nFiles' = nFiles + 1
        /\ historyIndex' = 0
        /\ currentImage' = nFiles'
        /\ HotspotNull'
        /\ crop' = NULL /\ completedCrop' = NULL
        /\ activeTab' = "promptEdit"
        /\ ~canUndo' /\ ~canRedo']_vars

\* the third file of the run is uploaded after an edit had appended the second
C15_Witness ==
    /\ last.ev = "upload"
    /\ history = <<3>>
    /\ historyIndex = 0
    /\ \E i \in EditOps : ops[i].appended = 2 /\ ops[i].capHistory = <<1>>

C19_Serialized ==
    [][(\E i \in 1..MaxOps : ops[i].pc \notin {"idle", "done"}) =>
          last'.ev \notin {"start", "undo", "redo", "reset", "crop", "upload",
                           "goHome"}]_vars

\* C20: when the AI call of an edit has failed and the refund write rejects,
\* that was the only refund attempt of the edit and none follows; the stored
\* balance stays lowered by the cost, the history is as it was and the loading
\* flag is cleared.
C20_RefundFailure ==
    [][\A i \in 1..MaxOps :
          /\ ops'[i].kind = "edit" => ops'[i].refundTries <= 1
          /\ ops[i].kind = "edit" /\ ops[i].pc = "refundWrite"
               /\ last' = Ev("rejected", i) =>
                 /\ ops'[i].pc = "done"
                 /\ ops'[i].refundTries = 1
                 /\ ops'[i].refunds = 0
                 /\ ops'[i].delta = -EditCost
                 /\ ops'[i].appended = NoFile
                 /\ UNCHANGED <<dbCredits, dbTx, history, historyIndex>>
                 /\ nOps = 1 => dbCredits' = PriorCredits - EditCost
                 /\ isLoading' = FALSE]_vars

\* the refund write of a failed edit was rejected
C20_Witness ==
    /\ last = Ev("rejected", 1)
    /\ ops[1].kind = "edit"
    /\ ops[1].refundTries = 1
    /\ ops[1].refunds = 0
    /\ dbCredits = PriorCredits - EditCost
    /\ error = Err("EditFailed")
    /\ ~isLoading

\* C14: canUndo is historyIndex > 0 and canRedo is historyIndex < length - 1;
\* a call of handleUndo moves the cursor down by one when canUndo holds and a
\* call of handleRedo moves it up by one when canRedo holds, otherwise the
\* call changes nothing; neither changes the history.
C14_UndoRedo ==
    [][/\ canUndo <=> historyIndex > 0
       /\ canRedo <=> historyIndex < Len(history) - 1
       /\ last'.ev \in {"undo", "undoIgnored"} =>
            /\ history' = history
            /\ IF canUndo
               THEN last'.ev = "undo" /\ historyIndex' = historyIndex - 1
               ELSE /\ last'.ev = "undoIgnored"
                    /\ UNCHANGED <<historyIndex, hotVars, cropVars, error,
                                   activeTab, appMode, isLoading, dbVars,
                                   currentUser, taskVars, nFiles>>
       /\ last'.ev \in {"redo", "redoIgnored"} =>
            /\ history' = history
            /\ IF canRedo
               THEN last'.ev = "redo" /\ historyIndex' = historyIndex + 1
               ELSE /\ last'.ev = "redoIgnored"
                    /\ UNCHANGED <<historyIndex, hotVars, cropVars, error,
                                   activeTab, appMode, isLoading, dbVars,
                                   currentUser, taskVars, nFiles>>]_vars

\* two versions, the cursor on the second: a redo was called and ignored
C14_Witness ==
    /\ last.ev = "redoIgnored"
    /\ Len(history) = 2
    /\ historyIndex = 1
    /\ canUndo /\ ~canRedo

\* C16: an edit requested without a current image sets the no-image error and
\* reaches no ledger call: no operation is started, stored balance,
\* transactions, history and cursor are unchanged; an edit that reaches the
\* ledger had a current image.
C16_NoImage ==
    [][/\ last'.ev = "noImage" =>
            /\ currentImage = NoFile
            /\ error' = Err("NoImage")
            /\ UNCHANGED <<dbCredits, dbTx, history, historyIndex, ops, nOps,
                           now, isLoading, currentUser>>
       /\ last'.ev \in {"start", "insufficient", "notSignedIn"} =>
            currentImage # NoFile]_vars

\* signed in, nothing uploaded: the edit was refused
C16_Witness ==
    /\ last.ev = "noImage"
    /\ error = Err("NoImage")
    /\ currentUser.present
    /\ history = <<>>
    /\ dbCredits = PriorCredits
    /\ nOps = 0

\* what the payload contract says of a string, read off its characters: it has
\* no comma; the part before its first comma has no ':' followed, after at
\* least one character, by a ';'
NoComma(u) == \A k \in 1..Len(u) : u[k] # ","
NoMimeSegment(u) ==
    LET c == IndexOf(u, ",", 0)
        h == IF c = 0 THEN u ELSE SubSeq(u, 1, c - 1)
    IN ~\E i, j \in 1..Len(h) : h[i] = ":" /\ h[j] = ";" /\ i + 1 < j

\* base64 with its padding: a multiple of 4 characters of the alphabet, the
\* last one or two of which may be '='
PaddedB64(b) ==
    /\ Len(b) % 4 = 0
    /\ \E pad \in 0..2 :
          /\ pad <= Len(b)
          /\ \A k \in 1..(Len(b) - pad) : IsB64(b[k])
          /\ \A k \in (Len(b) - pad + 1)..Len(b) : b[k] = "="

\* a well-formed data URL <scheme>:<mime>;<encoding>,<body> as far as the
\* conversion reads it: ':' (what precedes it is not looked at), a non-empty
\* MIME type, ';', the comma, a padded base64 body
WellFormed(u) ==
    LET c == IndexOf(u, ",", 0)
    IN /\ c >= 4
       /\ u[1] = ":"
       /\ u[c - 1] = ";"
       /\ \A k \in 2..(c - 2) : u[k] \notin {":", ";"}
       /\ PaddedB64(SubSeq(u, c + 1, Len(u)))
MimeOf(u) == SubSeq(u, 2, IndexOf(u, ",", 0) - 2)
BodyOf(u) == SubSeq(u, IndexOf(u, ",", 0) + 1, Len(u))

\* C18: dataURLtoFile of a well-formed data URL returns a File with the MIME
\* type of the URL (in lower case, as File keeps it) and the bytes its body
\* encodes; encoding that File as a data URL and converting again gives the
\* same type and the same bytes, and the re-encoded body encodes the bytes of
\* the original body.  A string without a comma, or without a non-empty MIME
\* segment between ':' and ';', makes it throw.
C18_RoundTrip ==
    last.ev = "converted" =>
        /\ NoComma(arg) \/ NoMimeSegment(arg) =>
              /\ ~ret.ok
              /\ ret.err \in {"Invalid data URL", "Could not parse MIME type"}
        /\ WellFormed(arg) =>
              /\ ret.ok
              /\ ret.type = toLowerCase(MimeOf(arg))
              /\ ret.bytes = atob(BodyOf(arg)).bytes
              /\ dataURLtoFileOf(readAsDataURL(ret)) = ret
              /\ atob(btoa(ret.bytes)).bytes = ret.bytes
              /\ PaddedB64(btoa(ret.bytes))

\* :p;,pppp was converted to the three bytes a6 9a 69
C18_Witness ==
    /\ last.ev = "converted"
    /\ arg = <<":", "p", ";", ",", "p", "p", "p", "p">>
    /\ ret.ok
    /\ ret.type = <<"p">>
    /\ ret.bytes = <<166, 154, 105>>
    /\ readAsDataURL(ret) = <<"d", "a", "t", "a", ":", "p", ";", "b", "a", "s",
                              "e", "6", "4", ",", "p", "p", "p", "p">>

\* C21: a call of handleReset on a non-empty history sets the cursor to 0 and
\* leaves the history array as it is; on an empty history it changes nothing
\* (the cursor stays -1).
C21_Reset ==
    [][last'.ev \in {"reset", "resetIgnored"} =>
        /\ history' = history
        /\ IF Len(history) > 0
           THEN last'.ev = "reset" /\ historyIndex' = 0
           ELSE /\ last'.ev = "resetIgnored"
                /\ historyIndex = -1
                /\ UNCHANGED <<historyIndex, hotVars, cropVars, error,
                               activeTab, appMode, isLoading, dbVars,
                               currentUser, taskVars, nFiles>>]_vars

\* three versions, reset from the last one: all three are still there
C21_Witness ==
    /\ last.ev = "reset"
    /\ history = <<1, 2, 3>>
    /\ historyIndex = 0

C23_HotspotOnlyOnLocalEdit ==
    (editHotspot # NULL \/ displayHotspot # NULL) => activeTab = "localEdit"

\* C24: when the callback of a verified identity finds no profile document,
\* currentUser is left as it was, history, gallery and screen mode are not
\* cleared, no error is set, and the main area shows the loading state and
\* not the sign-in screen or an error.
C24_MissingProfileLoading ==
    [][last'.ev = "authProfile" /\ ~getUserProfile.present =>
        /\ UNCHANGED <<currentUser, history, historyIndex,
                       allGeneratedImages, appMode, error>>
        /\ renderContent' = "spinner"]_vars

\* C27: a step of a guarded operation that resumes after the history was
\* emptied (sign-out or Home while it was in flight) leaves the history empty
\* with the cursor at -1, and a step that resumes after the session ended
\* sets no profile.
C27_EndedSessionStaysEmpty ==
    [][last'.op > 0 =>
        /\ history = <<>> => history' = <<>> /\ historyIndex' = -1
        /\ (identity # "verified" /\ ~currentUser.present)
               => ~currentUser'.present]_vars

\* C28: the result of a guarded edit is appended by truncating the history at
\* the cursor that is current when the edit completes, so a history change
\* made while the edit was in flight (undo, redo, reset, crop, new upload)
\* is kept.
C28_AppendAtCurrentCursor ==
    [][last'.ev = "editDone" /\ history # <<>> /\ identity = "verified" =>
        /\ history' = SubSeq(history, 1, historyIndex + 1) \o <<nFiles'>>
        /\ historyIndex' = Len(history') - 1]_vars

\* C30: identity notifications take effect in order.  A profile or gallery
\* load that resumes after a later sign-out notification sets neither
\* currentUser nor the gallery, and once every callback has finished the
\* session matches the most recent notification: no profile and an empty
\* gallery when that notification was a sign-out.
C30_NotificationsInOrder ==
    /\ (identity # "verified" /\ nOps = 0 /\
           \A k \in DOMAIN authOps : authOps[k] \in {"idle", "done"})
          => currentUser = NoUser /\ allGeneratedImages = <<>>
    /\ (identity # "verified" /\ nOps = 0 /\
           last.ev \in {"authProfile", "authGallery"})
          => currentUser = NoUser /\ allGeneratedImages = <<>>

\* the outcome of handleApiResponse on r, by the precedence of its checks
Classified(r, out) ==
    /\ out.ok <=> out.err = "none"
    /\ out.err \in {"none", "blocked", "stopped", "noImage"}
    /\ r.block => out.err = "blocked"
    /\ ~r.block /\ r.image # "none" => out.ok /\ out.url.scheme = "data"
    /\ ~r.block /\ r.image = "none" /\ r.finish = "OTHER"
          => out.err = "stopped"
    /\ ~r.block /\ r.image = "none" /\ r.finish \in {"none", "STOP"}
          => out.err = "noImage" /\ (out.quotes <=> r.text = "some")

\* C26: a gateway operation that has settled has issued exactly one remote
\* request, and a response it received is classified into exactly one outcome:
\* blocked when a block reason is present, even with an image; else success
\* when the first candidate holds an image part, even with a finish reason
\* other than STOP; else stopped-early on a finish reason other than STOP;
\* else no-image, quoting the model's text when there is some.
C26_Gateway ==
    ret.settled =>
        /\ ret.requests = 1
        /\ ~arg.rejects => Classified(arg.response, ret.out)

\* C29: whenever handleDeductCredits returns false (no session profile, too
\* few credits, or no profile returned after the write) no debit has been
\* applied to the stored balance; a debit write that succeeded is never
\* followed by a report of a failed deduction.
C29_FailedDeductionNoDebit ==
    [][/\ last'.ev \in {"notSignedIn", "insufficient"}
            => UNCHANGED <<dbCredits, dbTx>>
       /\ last'.ev = "deductFailed"
            => /\ ops'[last'.op].debits = 0
               /\ ops'[last'.op].delta = 0]_vars

\* the URLs a slot holds unrevoked when its cell shows the URL of image f
OneUrlFor(f) == IF f = NoFile THEN <<>> ELSE <<f>>

\* C25: object URLs are created and revoked in pairs.  No URL is revoked
\* twice or shown after its revoke; while the component is mounted each of
\* the two slots holds exactly the one URL of its present image unrevoked
\* (none when there is no image), which is the URL in its cell, so the URL
\* of an image that left the slot has been revoked; a download leaves no URL
\* behind; after the unmount no URL is left unrevoked.
C25_ObjectUrlsPaired ==
    /\ urlFault = "none"
    /\ Len(liveUrls.current) <= 1
    /\ Len(liveUrls.original) <= 1
    /\ liveUrls.download = <<>>
    /\ mounted =>
          /\ currentImageUrl = currentImage
          /\ originalImageUrl = originalImage
          /\ liveUrls.current = OneUrlFor(currentImage)
          /\ liveUrls.original = OneUrlFor(originalImage)
    /\ ~mounted =>
          liveUrls.current = <<>> /\ liveUrls.original = <<>>

\* an unmount with the second of three versions shown: URLs were created for
\* three images in the current slot, and none is left
C25_Witness ==
    /\ last.ev = "unmount"
    /\ Len(history) = 3
    /\ historyIndex = 1
    /\ currentImageUrl = history[2]
    /\ originalImageUrl = history[1]
    /\ liveUrls = [current |-> <<>>, original |-> <<>>, download |-> <<>>]
====
